---- MODULE Spec2Model ----
(***************************************************************************)
(* svgrep: a grep for separated-values files (src/src/main.rs).            *)
(*                                                                         *)
(* Text is modelled as a sequence of one-character strings, so that        *)
(* splitting, number parsing, number formatting, trimming and regex        *)
(* matching are computed character by character as the program does.       *)
(* The model covers the default delimiters ('@', '&', '=', ';') and input  *)
(* read from standard input.                                               *)
(***************************************************************************)
EXTENDS Integers, Sequences, FiniteSets, TLC

VARIABLES
    opts,          \* parsed command line: [match_vals, trim]
    file,          \* the lines the line iterator will yield
    pc,            \* "build_config" | "svgrep_lines" | "match" | "exit"
    match_exps,    \* Config.match_exps collected so far
    lines_read,    \* number of lines pulled from the iterator
    row,           \* the CSVRow of the line being processed
    exp_idx,       \* position of the inner loop over match_exps
    stdout,        \* printed lines, in print order
    printed,       \* history: <<line number, expression number>> of each printed line
    twin_stdout,   \* stdout of the run that differs only in the trim flag
    twin_printed,  \* history of that run
    stderr,        \* the error message, NoMsg if none
    exit_code      \* -1 while running, else the process exit status

vars == <<opts, file, pc, match_exps, lines_read, row, exp_idx, stdout, printed,
          twin_stdout, twin_printed, stderr, exit_code>>

(***************************************************************************)
(* Bounds of the model.                                                    *)
(***************************************************************************)
MaxExps == 2
MaxLines == 2
MaxClauses == 2
MaxCells == 2
MaxSel == 2

(***************************************************************************)
(* Text helpers: the library routines the program calls.                   *)
(***************************************************************************)
Digits == {"0", "1", "2", "3", "4", "5", "6", "7", "8", "9"}
DigitChar == <<"0", "1", "2", "3", "4", "5", "6", "7", "8", "9">>
DigitVal(c) == CHOOSE d \in 0..9 : DigitChar[d + 1] = c

AllDigits(s) == s # <<>> /\ \A i \in 1..Len(s) : s[i] \in Digits

RECURSIVE DecVal(_)
DecVal(s) ==
    IF s = <<>> THEN 0
    ELSE DecVal(SubSeq(s, 1, Len(s) - 1)) * 10 + DigitVal(s[Len(s)])

\* str::parse::<usize>: Ok for a non-empty run of ASCII digits
parse_usize(s) ==
    IF AllDigits(s) THEN [ok |-> TRUE, val |-> DecVal(s)]
    ELSE [ok |-> FALSE, val |-> 0]

\* "{}" of a usize
RECURSIVE fmt_usize(_)
fmt_usize(n) ==
    IF n < 10 THEN <<DigitChar[n + 1]>>
    ELSE fmt_usize(n \div 10) \o <<DigitChar[(n % 10) + 1]>>

\* str::split on a one-character pattern
RECURSIVE split(_, _)
split(s, sep) ==
    IF \E i \in 1..Len(s) : s[i] = sep
    THEN LET i == CHOOSE k \in 1..Len(s) :
                      s[k] = sep /\ \A m \in 1..(k - 1) : s[m] # sep
         IN  <<SubSeq(s, 1, i - 1)>> \o split(SubSeq(s, i + 1, Len(s)), sep)
    ELSE <<s>>

\* str::trim
RECURSIVE trim(_)
trim(s) ==
    IF s = <<>> THEN s
    ELSE IF s[1] = " " THEN trim(SubSeq(s, 2, Len(s)))
    ELSE IF s[Len(s)] = " " THEN trim(SubSeq(s, 1, Len(s) - 1))
    ELSE s

(***************************************************************************)
(* The regex crate, for patterns made of literal characters, the anchors   *)
(* '^' and '$', and '(' (an unclosed group: a syntax error).               *)
(***************************************************************************)
Regex_new(text) ==
    [ok |-> \A i \in 1..Len(text) : text[i] # "(", rx |-> text]

RECURSIVE MatchAt(_, _, _, _)
MatchAt(rx, i, s, j) ==
    IF i > Len(rx) THEN TRUE
    ELSE IF rx[i] = "^" THEN j = 1 /\ MatchAt(rx, i + 1, s, j)
    ELSE IF rx[i] = "$" THEN j = Len(s) + 1 /\ MatchAt(rx, i + 1, s, j)
    ELSE j <= Len(s) /\ s[j] = rx[i] /\ MatchAt(rx, i + 1, s, j + 1)

is_match(rx, s) == \E j \in 1..(Len(s) + 1) : MatchAt(rx, 1, s, j)

(***************************************************************************)
(* Configuration defaults.                                                 *)
(***************************************************************************)
match_char_cfg ==
    [cell_select_char |-> "@", match_conj_char |-> "&", matches_char |-> "="]

separator == ";"

(***************************************************************************)
(* CSVRow                                                                  *)
(***************************************************************************)
parse_line(line, sep) == [cells |-> split(line, sep)]

get_cell(r, idx) ==
    IF idx >= Len(r.cells) THEN [some |-> FALSE, val |-> <<>>]
    ELSE [some |-> TRUE, val |-> r.cells[idx + 1]]

maybe_trim(cell, t) == IF t THEN trim(cell) ELSE cell

CellSelect_ALL == [all |-> TRUE, cols |-> <<>>]
CellSelect_Some(cols) == [all |-> FALSE, cols |-> cols]

RECURSIVE print_all(_, _, _)
print_all(r, k, config) ==
    IF k > Len(r.cells) THEN <<>>
    ELSE <<"(">> \o fmt_usize(k - 1) \o <<")", " ">>
         \o maybe_trim(r.cells[k], config.trim)
         \o <<config.separator, " ">>
         \o print_all(r, k + 1, config)

\* variant: the loop ends at the first index the row does not have
RECURSIVE print_some_truncating(_, _, _, _)
print_some_truncating(r, cols, k, config) ==
    IF k > Len(cols) THEN <<>>
    ELSE IF cols[k] >= Len(r.cells)
    THEN <<"<", "n", "o", " ", "c", "o", "l", " ">> \o fmt_usize(cols[k]) \o <<">">>
         \o <<config.separator, " ">>
    ELSE <<"(">> \o fmt_usize(cols[k]) \o <<")", " ">>
         \o maybe_trim(r.cells[cols[k] + 1], config.trim)
         \o <<config.separator, " ">>
         \o print_some_truncating(r, cols, k + 1, config)

RECURSIVE print_some(_, _, _, _)
print_some(r, cols, k, config) ==
    IF k > Len(cols) THEN <<>>
    ELSE (IF cols[k] >= Len(r.cells)
          THEN <<"<", "n", "o", " ", "c", "o", "l", " ">> \o fmt_usize(cols[k]) \o <<">">>
          ELSE <<"(">> \o fmt_usize(cols[k]) \o <<")", " ">>
               \o maybe_trim(r.cells[cols[k] + 1], config.trim))
         \o <<config.separator, " ">>
         \o print_some(r, cols, k + 1, config)

\* the text of the line that CSVRow::print writes
print(r, cols, config) ==
    IF cols.all THEN print_all(r, 1, config)
    ELSE print_some(r, cols.cols, 1, config)

(***************************************************************************)
(* MatchExp                                                                *)
(***************************************************************************)
EmptyMap == [k \in {} |-> <<>>]

MatchExp_empty == [rxs |-> <<>>, cell_rxs |-> EmptyMap, sel |-> CellSelect_ALL]

\* variant: a missing cell satisfies the predicate
cell_rx_holds_absent_ok(r, cell_idx, rx) ==
    LET cell == get_cell(r, cell_idx)
    IN  ~cell.some \/ is_match(rx, cell.val)

\* the closure of the first all(): the cell exists and the regex matches it
cell_rx_holds(r, cell_idx, rx) ==
    LET cell == get_cell(r, cell_idx)
    IN  cell.some /\ is_match(rx, cell.val)

\* the closure of the second all(): some cell matches the regex
any_cell_matches(r, rx) ==
    \E i \in 1..Len(r.cells) : is_match(rx, r.cells[i])

\* variant: the base case holds as soon as one of the two collections is empty
row_matches_base_or(self, r, config) ==
    LET m0 == self.rxs = <<>> \/ DOMAIN self.cell_rxs = {}
        m1 == m0 \/ \A cell_idx \in DOMAIN self.cell_rxs :
                        cell_rx_holds(r, cell_idx, self.cell_rxs[cell_idx])
    IN  m1 /\ \A k \in 1..Len(self.rxs) : any_cell_matches(r, self.rxs[k])

\* variant: the regexes are applied to the cells as they are printed
row_matches_trimmed(self, r, config) ==
    LET t == [cells |-> [i \in 1..Len(r.cells) |-> maybe_trim(r.cells[i], config.trim)]]
        m0 == self.rxs = <<>> /\ DOMAIN self.cell_rxs = {}
        m1 == m0 \/ \A cell_idx \in DOMAIN self.cell_rxs :
                        cell_rx_holds(t, cell_idx, self.cell_rxs[cell_idx])
    IN  m1 /\ \A k \in 1..Len(self.rxs) : any_cell_matches(t, self.rxs[k])

row_matches(self, r, config) ==
    LET m0 == self.rxs = <<>> /\ DOMAIN self.cell_rxs = {}
        m1 == m0 \/ \A cell_idx \in DOMAIN self.cell_rxs :
                        cell_rx_holds(r, cell_idx, self.cell_rxs[cell_idx])
    IN  m1 /\ \A k \in 1..Len(self.rxs) : any_cell_matches(r, self.rxs[k])

\* the lines match_and_select prints for one row: none or one
match_and_select(self, r, config) ==
    IF row_matches(self, r, config) THEN <<print(r, self.sel, config)>> ELSE <<>>

(***************************************************************************)
(* The match-expression compiler.                                          *)
(***************************************************************************)
NUMBER_RX(s) == s # <<>> /\ s[1] \in Digits

ASTERISK_RX(s) == s = <<"*">>

\* a message: the format text and the values formatted into it
Msg(text, args) == [text |-> text, args |-> args]

NoMsg == Msg("", <<>>)

Failure(code, msg) ==
    [ok |-> FALSE, code |-> code, msg |-> msg, v |-> <<>>, hm |-> EmptyMap]

\* eprintln!("Error: {}", msg); exit(1)
error(msg) == Failure(1, msg)

\* a failed expect(): the process panics with exit status 101
panic(msg) == Failure(101, msg)

hm_insert(hm, key, val) ==
    [k \in DOMAIN hm \cup {key} |-> IF k = key THEN val ELSE hm[k]]

RECURSIVE build_rxs_loop(_, _, _, _)
build_rxs_loop(match_clauses, k, v, hm) ==
    IF k > Len(match_clauses)
    THEN [ok |-> TRUE, code |-> 0, msg |-> NoMsg, v |-> v, hm |-> hm]
    ELSE
      LET col_and_rx == split(match_clauses[k], match_char_cfg.matches_char)
          col == col_and_rx[1]
      IN  IF NUMBER_RX(col)
          THEN IF ~parse_usize(col).ok
               THEN panic(Msg("Invalid match column!: ParseIntError { kind: InvalidDigit }", <<>>))
               ELSE IF Len(col_and_rx) < 2
               THEN panic(Msg("index out of bounds: the len is 1 but the index is 1", <<>>))
               ELSE IF ~Regex_new(col_and_rx[2]).ok
               THEN panic(Msg("Invalid regex!: {:?}", <<col_and_rx[2]>>))
               ELSE build_rxs_loop(match_clauses, k + 1, v,
                        hm_insert(hm, parse_usize(col).val, Regex_new(col_and_rx[2]).rx))
          ELSE IF ASTERISK_RX(col)
          THEN IF Len(col_and_rx) < 2
               THEN panic(Msg("index out of bounds: the len is 1 but the index is 1", <<>>))
               ELSE IF ~Regex_new(col_and_rx[2]).ok
               THEN panic(Msg("Invalid regex!: {:?}", <<col_and_rx[2]>>))
               ELSE build_rxs_loop(match_clauses, k + 1,
                        Append(v, Regex_new(col_and_rx[2]).rx), hm)
          ELSE error(Msg("Error: '{}' is no valid column spec!", <<col>>))

\* m: the first capture group, [some, str]
build_rxs(m) ==
    IF ~m.some
    THEN [ok |-> TRUE, code |-> 0, msg |-> NoMsg, v |-> <<>>, hm |-> EmptyMap]
    ELSE build_rxs_loop(split(m.str, match_char_cfg.match_conj_char), 1, <<>>, EmptyMap)

\* s: the second capture group, [some, str]
build_cell_select(s) ==
    IF ~s.some THEN [ok |-> TRUE, sel |-> CellSelect_ALL]
    ELSE LET parts == split(s.str, ",")
         IN  IF \A i \in 1..Len(parts) : parse_usize(parts[i]).ok
             THEN [ok |-> TRUE,
                   sel |-> CellSelect_Some([i \in 1..Len(parts) |-> parse_usize(parts[i]).val])]
             ELSE [ok |-> FALSE, sel |-> CellSelect_ALL]

\* ^([^@]+)?(?:@(\d+(,\d+)*))?$ applied to match_val
captures(match_val) ==
    LET sc == match_char_cfg.cell_select_char
        none == [some |-> FALSE, str |-> <<>>]
    IN  IF \E i \in 1..Len(match_val) : match_val[i] = sc
        THEN LET parts == split(match_val, sc)
                 cols == split(parts[2], ",")
             IN  IF Len(parts) = 2 /\ \A i \in 1..Len(cols) : AllDigits(cols[i])
                 THEN [ok |-> TRUE,
                       g1 |-> IF parts[1] = <<>> THEN none
                              ELSE [some |-> TRUE, str |-> parts[1]],
                       g2 |-> [some |-> TRUE, str |-> parts[2]]]
                 ELSE [ok |-> FALSE, g1 |-> none, g2 |-> none]
        ELSE [ok |-> TRUE,
              g1 |-> IF match_val = <<>> THEN none
                     ELSE [some |-> TRUE, str |-> match_val],
              g2 |-> none]

NoExp(code, msg) == [ok |-> FALSE, code |-> code, msg |-> msg, exp |-> MatchExp_empty]

build_match_exp(match_val) ==
    LET caps == captures(match_val)
    IN  IF ~caps.ok THEN NoExp(101, Msg("Invalid --match expression!", <<>>))
        ELSE LET r == build_rxs(caps.g1)
             IN  IF ~r.ok THEN NoExp(r.code, r.msg)
                 ELSE LET s == build_cell_select(caps.g2)
                      IN  IF ~s.ok THEN NoExp(101, Msg("Invalid index in select!", <<>>))
                          ELSE [ok |-> TRUE, code |-> 0, msg |-> NoMsg,
                                exp |-> [rxs |-> r.v, cell_rxs |-> r.hm, sel |-> s.sel]]

(***************************************************************************)
(* The driver.                                                             *)
(***************************************************************************)
Config(t, exps) == [separator |-> separator, trim |-> t, match_exps |-> exps]

\* variant: the list is taken as given
active_match_exps_as_given(config) == config.match_exps

\* the list svgrep_lines iterates: all_match when no expression was given
active_match_exps(config) ==
    IF config.match_exps = <<>> THEN <<MatchExp_empty>> ELSE config.match_exps

InitWith(vals, files, trims) ==
    /\ opts \in [match_vals : vals, trim : trims]
    /\ file \in files
    /\ pc = "build_config"
    /\ match_exps = <<>>
    /\ lines_read = 0
    /\ row = [cells |-> <<>>]
    /\ exp_idx = 0
    /\ stdout = <<>>
    /\ printed = <<>>
    /\ twin_stdout = <<>>
    /\ twin_printed = <<>>
    /\ stderr = NoMsg
    /\ exit_code = -1

\* build_config: one --match value is compiled; a failure ends the process
BuildMatchExp ==
    /\ pc = "build_config"
    /\ Len(match_exps) < Len(opts.match_vals)
    /\ LET r == build_match_exp(opts.match_vals[Len(match_exps) + 1])
       IN  IF r.ok
           THEN /\ match_exps' = Append(match_exps, r.exp)
                /\ UNCHANGED <<pc, stderr, exit_code>>
           ELSE /\ pc' = "exit"
                /\ stderr' = r.msg
                /\ exit_code' = r.code
                /\ UNCHANGED match_exps
    /\ UNCHANGED <<opts, file, lines_read, row, exp_idx, stdout, printed,
                   twin_stdout, twin_printed>>

\* main: the configuration is complete, the line iterator is opened
LineIter ==
    /\ pc = "build_config"
    /\ Len(match_exps) = Len(opts.match_vals)
    /\ pc' = "svgrep_lines"
    /\ UNCHANGED <<opts, file, match_exps, lines_read, row, exp_idx, stdout, printed,
                   twin_stdout, twin_printed, stderr, exit_code>>

\* svgrep_lines, outer loop: the next line is read and parsed
ReadLine ==
    /\ pc = "svgrep_lines"
    /\ lines_read < Len(file)
    /\ lines_read' = lines_read + 1
    /\ row' = parse_line(file[lines_read + 1], separator)
    /\ IF active_match_exps(Config(opts.trim, match_exps)) = <<>>
       THEN exp_idx' = 0 /\ pc' = "svgrep_lines"
       ELSE exp_idx' = 1 /\ pc' = "match"
    /\ UNCHANGED <<opts, file, match_exps, stdout, printed, twin_stdout, twin_printed,
                   stderr, exit_code>>

\* match_exp.match_and_select(&row, &config) for the j-th expression of the list
ApplyExp(j) ==
    LET config == Config(opts.trim, match_exps)
        twin == Config(~opts.trim, match_exps)
        exps == active_match_exps(config)
        out == match_and_select(exps[j], row, config)
        twin_out == match_and_select(exps[j], row, twin)
    IN  /\ stdout' = stdout \o out
        /\ printed' = IF out = <<>> THEN printed
                      ELSE Append(printed, <<lines_read, j>>)
        /\ twin_stdout' = twin_stdout \o twin_out
        /\ twin_printed' = IF twin_out = <<>> THEN twin_printed
                           ELSE Append(twin_printed, <<lines_read, j>>)

NumExps == Len(active_match_exps(Config(opts.trim, match_exps)))

\* variant: the inner loop ends at the first expression that prints
MatchAndSelect_first_wins ==
    /\ pc = "match"
    /\ ApplyExp(exp_idx)
    /\ IF exp_idx < NumExps /\ stdout' = stdout
       THEN exp_idx' = exp_idx + 1 /\ pc' = "match"
       ELSE exp_idx' = 0 /\ pc' = "svgrep_lines"
    /\ UNCHANGED <<opts, file, match_exps, lines_read, row, stderr, exit_code>>

\* variant: the inner loop runs from the last expression to the first
MatchAndSelect_reversed ==
    /\ pc = "match"
    /\ ApplyExp(NumExps + 1 - exp_idx)
    /\ IF exp_idx < NumExps
       THEN exp_idx' = exp_idx + 1 /\ pc' = "match"
       ELSE exp_idx' = 0 /\ pc' = "svgrep_lines"
    /\ UNCHANGED <<opts, file, match_exps, lines_read, row, stderr, exit_code>>

\* svgrep_lines, inner loop: the next expression is applied to the row
MatchAndSelect ==
    /\ pc = "match"
    /\ ApplyExp(exp_idx)
    /\ IF exp_idx < NumExps
       THEN exp_idx' = exp_idx + 1 /\ pc' = "match"
       ELSE exp_idx' = 0 /\ pc' = "svgrep_lines"
    /\ UNCHANGED <<opts, file, match_exps, lines_read, row, stderr, exit_code>>

\* end of input: main returns
EndOfInput ==
    /\ pc = "svgrep_lines"
    /\ lines_read = Len(file)
    /\ pc' = "exit"
    /\ exit_code' = 0
    /\ UNCHANGED <<opts, file, match_exps, lines_read, row, exp_idx, stdout, printed,
                   twin_stdout, twin_printed, stderr>>

Next ==
    \/ BuildMatchExp
    \/ LineIter
    \/ ReadLine
    \/ MatchAndSelect
    \/ EndOfInput

(***************************************************************************)
(* Inputs.                                                                 *)
(***************************************************************************)
SeqsUpTo(S, n) == UNION {[1..k -> S] : k \in 0..n}

RECURSIVE Join(_, _)
Join(parts, sep) ==
    IF parts = <<>> THEN <<>>
    ELSE IF Len(parts) = 1 THEN parts[1]
    ELSE parts[1] \o <<sep>> \o Join(Tail(parts), sep)

\* lines of 1..n cells
LinesOf(cells, n) ==
    {Join(r, separator) : r \in SeqsUpTo(cells, n) \ {<<>>}}

\* the driver: lists of expressions, some invalid, over files of several lines
DriverExprTexts ==
    { <<"0", "=", "a">>,
      <<"*", "=", "^", "a", "$", "@", "1", ",", "0">>,
      <<"1", "=">>,
      <<"x", "=", "a">>,
      <<"0", "=", "(">>,
      <<"0", "=", "a", "=", "(">>,
      <<"@", "x">> }

DriverLines ==
    { <<>>,
      <<"a", ";", "a">>,
      <<" ", "a", ";", "b">> }

Init ==
    InitWith(SeqsUpTo(DriverExprTexts, MaxExps), SeqsUpTo(DriverLines, MaxLines), BOOLEAN)

Spec == Init /\ [][Next]_vars

\* the compiler and the evaluator: one expression of several clauses, one line
ColSpecTexts == {<<"0">>, <<"1">>, <<"*">>}

RegexTexts == {<<"a">>, <<"^", "a", "$">>, <<>>}

ClauseTexts ==
    {c \o <<"=">> \o r : c \in ColSpecTexts, r \in RegexTexts}
    \cup { <<"1", "x", "=", "a">>,
           <<"=", "a">>,
           <<"x", "=", "a">>,
           <<"0", "=", "(">>,
           <<"1">> }

MatchExprTexts ==
    {Join(cl, "&") \o s : cl \in SeqsUpTo(ClauseTexts, MaxClauses),
                          s \in {<<>>, <<"@", "0">>}}

MatchCellTexts == {<<>>, <<"a">>, <<" ", "a">>}

InitMatch ==
    InitWith({<<e>> : e \in MatchExprTexts},
             {<<l>> : l \in LinesOf(MatchCellTexts, MaxCells)}, {FALSE})

SpecMatch == InitMatch /\ [][Next]_vars

\* the printer: one expression with a display list, one line
SelIndexTexts == {<<"0">>, <<"1">>, <<"1", "2">>}

SelTexts ==
    {<<>>, <<"@">>, <<"@", "x">>}
    \cup {<<"@">> \o Join(l, ",") : l \in SeqsUpTo(SelIndexTexts, MaxSel) \ {<<>>}}

PrintExprTexts ==
    {c \o s : c \in {<<>>, <<"0", "=", "a">>}, s \in SelTexts}

PrintCellTexts == {<<>>, <<"a">>, <<" ", "a", " ">>}

InitPrint ==
    InitWith({<<e>> : e \in PrintExprTexts},
             {<<l>> : l \in LinesOf(PrintCellTexts, MaxCells)}, BOOLEAN)

SpecPrint == InitPrint /\ [][Next]_vars

(***************************************************************************)
(* Vocabulary of the properties.                                           *)
(***************************************************************************)
\* the expressions the driver applies, and the row of the i-th line
Exps == active_match_exps(Config(opts.trim, match_exps))

RowOf(i) == parse_line(file[i], separator)

\* expression j has been applied to line i
Evaluated(i, j) ==
    /\ i \in 1..lines_read
    /\ j \in 1..Len(Exps)
    /\ (i < lines_read \/ pc # "match" \/ j < exp_idx)

EvaluatedPairs == {p \in (1..lines_read) \X (1..Len(Exps)) : Evaluated(p[1], p[2])}

\* the output lines of line i under expression j
LinesFor(i, j) == {k \in 1..Len(printed) : printed[k] = <<i, j>>}

WasPrinted(i, j) == LinesFor(i, j) # {}

\* every indexed predicate holds / every any-column predicate holds
IndexedOk(e, r) ==
    \A c \in DOMAIN e.cell_rxs :
        c < Len(r.cells) /\ is_match(e.cell_rxs[c], r.cells[c + 1])

AnyOk(e, r) ==
    \A k \in 1..Len(e.rxs) : \E i \in 1..Len(r.cells) : is_match(e.rxs[k], r.cells[i])

\* the clauses of an expression text, and what one clause says of a row
TextClauses(text) ==
    LET clause_part == split(text, "@")[1]
    IN  IF clause_part = <<>> THEN <<>> ELSE split(clause_part, "&")

ClauseSpec(clause) == split(clause, "=")[1]

ClauseRegex(clause) == Join(Tail(split(clause, "=")), "=")

ClauseHolds(clause, r) ==
    IF ClauseSpec(clause) = <<"*">>
    THEN \E i \in 1..Len(r.cells) : is_match(ClauseRegex(clause), r.cells[i])
    ELSE /\ DecVal(ClauseSpec(clause)) < Len(r.cells)
         /\ is_match(ClauseRegex(clause), r.cells[DecVal(ClauseSpec(clause)) + 1])

\* the grammar of an expression text
BadColumnSpec(spec) == spec # <<"*">> /\ ~AllDigits(spec)

ClauseValid(clause) ==
    /\ ~BadColumnSpec(ClauseSpec(clause))
    /\ Len(split(clause, "=")) >= 2
    /\ Regex_new(ClauseRegex(clause)).ok

SelectPartValid(text) ==
    LET p == split(text, "@")
    IN  \/ Len(p) = 1
        \/ /\ Len(p) = 2
           /\ \A i \in 1..Len(split(p[2], ",")) : AllDigits(split(p[2], ",")[i])

ValidExpr(text) ==
    /\ SelectPartValid(text)
    /\ \A k \in 1..Len(TextClauses(text)) : ClauseValid(TextClauses(text)[k])

(***************************************************************************)
(* C10: the evaluator's nested decision, (base OR every indexed predicate  *)
(* holds) AND every any-column predicate holds, is the plain conjunction   *)
(* of the two; an expression with only any-column predicates matches       *)
(* exactly the rows in which each of its regexes matches some cell.        *)
(***************************************************************************)
C10_NestedEqualsConjunction ==
    \A p \in EvaluatedPairs :
        LET e == Exps[p[2]]
            r == RowOf(p[1])
        IN  /\ WasPrinted(p[1], p[2]) <=> (IndexedOk(e, r) /\ AnyOk(e, r))
            /\ (DOMAIN e.cell_rxs = {} /\ e.rxs # <<>>)
                   => (WasPrinted(p[1], p[2]) <=> AnyOk(e, r))

\* an expression with any-column predicates only was applied to a row and printed it
C10_Witness ==
    \E p \in EvaluatedPairs :
        /\ Exps[p[2]].rxs # <<>>
        /\ DOMAIN Exps[p[2]].cell_rxs = {}
        /\ WasPrinted(p[1], p[2])

(***************************************************************************)
(* C5: an expression with an indexed predicate on column c never matches   *)
(* a row with c or fewer cells, and matches a longer row only if the cell  *)
(* at c matches the predicate's regex.                                     *)
(***************************************************************************)
C5_AbsentColumnNeverMatches ==
    /\ \A p \in EvaluatedPairs :
           \A c \in DOMAIN Exps[p[2]].cell_rxs :
               LET r == RowOf(p[1])
               IN  /\ Len(r.cells) <= c => ~WasPrinted(p[1], p[2])
                   /\ WasPrinted(p[1], p[2]) =>
                          is_match(Exps[p[2]].cell_rxs[c], r.cells[c + 1])
    \* the same of every numeric clause of the expression's text
    /\ opts.match_vals # <<>> =>
           \A p \in EvaluatedPairs :
               LET clauses == TextClauses(opts.match_vals[p[2]])
               IN  \A k \in 1..Len(clauses) :
                       (AllDigits(ClauseSpec(clauses[k]))
                            /\ Len(RowOf(p[1]).cells) <= DecVal(ClauseSpec(clauses[k])))
                       => ~WasPrinted(p[1], p[2])

\* a predicate whose regex matches the empty string met a row without its column
C5_Witness ==
    \E p \in EvaluatedPairs :
        \E c \in DOMAIN Exps[p[2]].cell_rxs :
            /\ Exps[p[2]].cell_rxs[c] = <<>>
            /\ Len(RowOf(p[1]).cells) <= c
            /\ ~WasPrinted(p[1], p[2])

(***************************************************************************)
(* C1: a row matches a compiled expression if and only if every clause of  *)
(* the expression's text holds for the row.                                *)
(***************************************************************************)
C1_MatchIffEveryClauseHolds ==
    opts.match_vals # <<>> =>
        \A p \in EvaluatedPairs :
            LET clauses == TextClauses(opts.match_vals[p[2]])
            IN  WasPrinted(p[1], p[2]) <=>
                    \A k \in 1..Len(clauses) : ClauseHolds(clauses[k], RowOf(p[1]))

(***************************************************************************)
(* C4: when compilation reaches a clause whose column spec is neither '*'  *)
(* nor all digits, the process ends with a non-zero status and a message   *)
(* that names the spec; no expression with such a clause is compiled.      *)
(***************************************************************************)
\* the first clause of the text that does not compile, 0 if all do
FirstBadClause(text) ==
    LET clauses == TextClauses(text)
        bad == {k \in 1..Len(clauses) : ~ClauseValid(clauses[k])}
    IN  IF bad = {} THEN 0 ELSE CHOOSE k \in bad : \A m \in bad : k <= m

C4_BadColumnSpecIsNamed ==
    /\ \A j \in 1..Len(match_exps) :
           \A k \in 1..Len(TextClauses(opts.match_vals[j])) :
               ~BadColumnSpec(ClauseSpec(TextClauses(opts.match_vals[j])[k]))
    /\ (pc = "exit" /\ Len(match_exps) < Len(opts.match_vals)) =>
           LET text == opts.match_vals[Len(match_exps) + 1]
               k == FirstBadClause(text)
           IN  (SelectPartValid(text) /\ k > 0
                    /\ BadColumnSpec(ClauseSpec(TextClauses(text)[k])))
               => /\ exit_code > 0
                  /\ \E a \in 1..Len(stderr.args) :
                         stderr.args[a] = ClauseSpec(TextClauses(text)[k])

(***************************************************************************)
(* Rendering, stated field by field.                                       *)
(***************************************************************************)
RECURSIVE Flatten(_)
Flatten(parts) ==
    IF parts = <<>> THEN <<>> ELSE parts[1] \o Flatten(Tail(parts))

\* the text without its leading and trailing blanks
Strip(text) ==
    LET solid == {i \in 1..Len(text) : text[i] # " "}
    IN  IF solid = {} THEN <<>>
        ELSE SubSeq(text, CHOOSE i \in solid : \A m \in solid : i <= m,
                          CHOOSE i \in solid : \A m \in solid : i >= m)

\* one field of an output line: the cell at idx, or the placeholder
FieldText(r, idx, stripped) ==
    (IF idx < Len(r.cells)
     THEN <<"(">> \o fmt_usize(idx) \o <<")", " ">>
          \o (IF stripped THEN Strip(r.cells[idx + 1]) ELSE r.cells[idx + 1])
     ELSE <<"<", "n", "o", " ", "c", "o", "l", " ">> \o fmt_usize(idx) \o <<">">>)
    \o <<";", " ">>

\* the indices a selection shows for a row
ShownIndices(sel, r) ==
    IF sel.all THEN [k \in 1..Len(r.cells) |-> k - 1] ELSE sel.cols

ExpectedLine(r, sel, stripped) ==
    Flatten([k \in 1..Len(ShownIndices(sel, r)) |->
                 FieldText(r, ShownIndices(sel, r)[k], stripped)])

\* line i has been applied to every expression
Processed(i) == i \in 1..lines_read /\ (i < lines_read \/ pc # "match")

(***************************************************************************)
(* C2: every input row is printed exactly once for each expression it     *)
(* matches: a row matching k of the expressions produces k output lines.   *)
(***************************************************************************)
C2_OneLinePerMatchingExpression ==
    /\ Len(stdout) = Len(printed)
    /\ \A p \in EvaluatedPairs :
           Cardinality(LinesFor(p[1], p[2])) =
               IF IndexedOk(Exps[p[2]], RowOf(p[1])) /\ AnyOk(Exps[p[2]], RowOf(p[1]))
               THEN 1 ELSE 0
    /\ \A i \in 1..lines_read :
           Processed(i) =>
               Cardinality({k \in 1..Len(printed) : printed[k][1] = i}) =
                   Cardinality({j \in 1..Len(Exps) :
                                   IndexedOk(Exps[j], RowOf(i)) /\ AnyOk(Exps[j], RowOf(i))})

\* a row that satisfies two supplied expressions has been printed twice
C2_Witness ==
    /\ Len(opts.match_vals) = 2
    /\ \E i \in 1..lines_read :
           /\ Processed(i)
           /\ Cardinality({k \in 1..Len(printed) : printed[k][1] = i}) = 2

(***************************************************************************)
(* C3: every --match value is compiled before the first line is read; if   *)
(* one of them is invalid (grammar, column spec, regex, display index),    *)
(* no line is ever read or printed and the run ends with a non-zero exit   *)
(* status.                                                                 *)
(***************************************************************************)
C3_InvalidExpressionPrintsNothing ==
    /\ (lines_read > 0 \/ stdout # <<>> \/ pc \in {"svgrep_lines", "match"})
           => Len(match_exps) = Len(opts.match_vals)
    /\ (\E k \in 1..Len(opts.match_vals) : ~ValidExpr(opts.match_vals[k]))
           => /\ lines_read = 0
              /\ stdout = <<>>
              /\ pc \in {"build_config", "exit"}
              /\ pc = "exit" => exit_code > 0

(***************************************************************************)
(* C8: output order is input order: a line is printed only for the input   *)
(* line read last, nothing is printed by reading, and the output lines of  *)
(* one input line follow the declaration order of the expressions.         *)
(***************************************************************************)
OutputOrdered ==
    \A k, l \in 1..Len(printed) :
        k < l => \/ printed[k][1] < printed[l][1]
                 \/ printed[k][1] = printed[l][1] /\ printed[k][2] < printed[l][2]

C8_OutputOrderIsInputOrder ==
    /\ []OutputOrdered
    /\ [][/\ lines_read' # lines_read => stdout' = stdout /\ printed' = printed
          /\ stdout' # stdout =>
                 /\ lines_read' = lines_read
                 /\ Len(stdout') = Len(stdout) + 1
                 /\ SubSeq(stdout', 1, Len(stdout)) = stdout
                 /\ SubSeq(printed', 1, Len(printed)) = printed
                 /\ printed'[Len(printed')][1] = lines_read]_vars

\* two output lines of the first input line precede one of the second
C8_Witness ==
    /\ Len(printed) >= 3
    /\ printed[1][1] = 1
    /\ printed[2][1] = 1
    /\ printed[3][1] = 2

(***************************************************************************)
(* C9: without --match the run emits, for every input line, exactly one   *)
(* output line that holds every cell of the line, index-prefixed, in the   *)
(* original order.                                                         *)
(***************************************************************************)
C9_UniversalMatcherPrintsEveryLine ==
    opts.match_vals = <<>> =>
        /\ pc # "build_config" =>
               Exps = <<[rxs |-> <<>>, cell_rxs |-> EmptyMap,
                         sel |-> [all |-> TRUE, cols |-> <<>>]]>>
        /\ Len(stdout) = Cardinality({i \in 1..lines_read : Processed(i)})
        /\ \A i \in 1..lines_read :
               Processed(i) =>
                   /\ Join(RowOf(i).cells, ";") = file[i]
                   /\ stdout[i] = Flatten([k \in 1..Len(RowOf(i).cells) |->
                                      FieldText(RowOf(i), k - 1, opts.trim)])

\* an empty line and a line of two cells have both been printed
C9_Witness ==
    /\ opts.match_vals = <<>>
    /\ pc = "exit"
    /\ \E i \in 1..Len(file) : file[i] = <<>> /\ stdout[i] = <<"(", "0", ")", " ", ";", " ">>
    /\ \E i \in 1..Len(file) : Len(RowOf(i).cells) = 2

(***************************************************************************)
(* C7: the trim flag never affects matching: the run with the flag and     *)
(* the run without it print lines for the same (row, expression) pairs in  *)
(* the same order, a pair is printed iff the untrimmed cells match, and    *)
(* the two lines of a pair differ only by the stripping of each cell.      *)
(***************************************************************************)
C7_TrimNeverAffectsMatching ==
    LET on == IF opts.trim THEN stdout ELSE twin_stdout
        off == IF opts.trim THEN twin_stdout ELSE stdout
    IN  /\ printed = twin_printed
        /\ Len(on) = Len(printed)
        /\ Len(off) = Len(printed)
        /\ \A p \in EvaluatedPairs :
               WasPrinted(p[1], p[2]) <=>
                   (IndexedOk(Exps[p[2]], RowOf(p[1])) /\ AnyOk(Exps[p[2]], RowOf(p[1])))
        /\ \A k \in 1..Len(printed) :
               LET r == RowOf(printed[k][1])
                   sel == Exps[printed[k][2]].sel
               IN  /\ on[k] = ExpectedLine(r, sel, TRUE)
                   /\ off[k] = ExpectedLine(r, sel, FALSE)

\* a cell that matches ^a$ only once trimmed was not matched, and a printed
\* line differs between the two runs
C7_Witness ==
    /\ \E p \in EvaluatedPairs :
           /\ ~WasPrinted(p[1], p[2])
           /\ \E k \in 1..Len(Exps[p[2]].rxs) :
                  \E i \in 1..Len(RowOf(p[1]).cells) :
                      is_match(Exps[p[2]].rxs[k], Strip(RowOf(p[1]).cells[i]))
    /\ \E k \in 1..Len(stdout) : stdout[k] # twin_stdout[k]

(***************************************************************************)
(* C6: for a matching row and an explicit selection of n indices the       *)
(* printed line has n fields in the order of the list: the cell with its   *)
(* index prefix, or the placeholder for an index the row does not have;    *)
(* such an index does not change the match decision or end the run.        *)
(***************************************************************************)
\* the entries of the display list of an expression text
DisplayEntries(text) == split(split(text, "@")[2], ",")

C6_ExplicitSelectionRendersEveryEntry ==
    (pc # "build_config" /\ Len(match_exps) = 1 /\ ~match_exps[1].sel.all) =>
        LET e == match_exps[1]
            entries == DisplayEntries(opts.match_vals[1])
        IN  /\ Len(e.sel.cols) = Len(entries)
            /\ \A m \in 1..Len(entries) : e.sel.cols[m] = DecVal(entries[m])
            /\ exit_code \in {-1, 0}
            /\ \A p \in EvaluatedPairs :
                   WasPrinted(p[1], p[2]) <=>
                       (IndexedOk(e, RowOf(p[1])) /\ AnyOk(e, RowOf(p[1])))
            /\ \A k \in 1..Len(printed) :
                   LET r == RowOf(printed[k][1])
                   IN  /\ stdout[k] = Flatten([m \in 1..Len(entries) |->
                                          FieldText(r, e.sel.cols[m], opts.trim)])
                       /\ Cardinality({c \in 1..Len(stdout[k]) : stdout[k][c] = ";"})
                              = Len(entries)

\* a line was printed for a display list whose first entry the row does not
\* have and whose second entry it has
C6_Witness ==
    /\ Len(match_exps) = 1
    /\ ~match_exps[1].sel.all
    /\ Len(match_exps[1].sel.cols) = 2
    /\ Len(stdout) = 1
    /\ match_exps[1].sel.cols[1] >= Len(RowOf(1).cells)
    /\ match_exps[1].sel.cols[2] < Len(RowOf(1).cells)

====
